---- MODULE Spec2Model ----
(***************************************************************************)
(* A model of scanner.py: the preprocessing-pipeline search                *)
(* (find_best_preprocessing and the functions it drives), the text         *)
(* normalizer (clean_text), the field extractors (filter_info,             *)
(* filter_dates, filter_location) and the script's main flow.              *)
(*                                                                         *)
(* Strings are sequences of one-character strings, so that len(), strip(), *)
(* slicing and the regular expressions act on characters.  The external    *)
(* engines (OpenCV, Tesseract, dateparser) are inputs: what they return or *)
(* whether they raise is chosen by the environment.                        *)
(***************************************************************************)
EXTENDS Integers, Sequences, FiniteSets, TLC

VARIABLES
    \* scan_text_with_confidence, called on its own
    engine,          \* what pytesseract.image_to_data does: raises, or its DICT
    scan_pc,         \* "call" | "done"
    scan_ret,        \* the (text, confidence) returned
    \* find_best_preprocessing
    image_file,            \* what cv.imread finds at image_path: an image or None
    otsu_mean,             \* the mean intensity cv.threshold leaves
    sel_pc,                \* "imread" | "loop" | "done"
    original_image,
    next_pipeline,         \* position of the for loop in the registry
    pipeline_name,         \* the loop variable, bound once the loop has run
    best_text,
    best_confidence,
    best_pipeline_name,
    best_processed_image,
    processed_log,         \* per pipeline run, what apply_preprocessing_pipeline returned
    scan_log,              \* per pipeline run, what scan_text_with_confidence returned
    ocr_fault_log,         \* per pipeline run, whether the recognition call raised
    output_path,           \* the file cv.imwrite was given
    sel_ret,               \* the (text, confidence, pipeline name) returned
    \* clean_text, filter_info, filter_dates, filter_location, each called on its own
    text_in,               \* the argument ocr_text
    text_pc,               \* "call" | "done" | "again"
    text_ret,              \* the value returned
    text_again,            \* clean_text applied to its own result
    date_engine,           \* what dateparser does when filter_dates calls it
    searched_text,         \* the text filter_dates hands to search_dates
    \* the script, lines 199-210
    main_pc,               \* the statement to run next
    main_text,             \* text, as preprocess_image_optimized returned it
    main_cleaned,          \* what the call of line 203 returned
    info_arg,              \* the argument filter_info was called with
    dates_arg,
    location_arg,
    main_printed           \* the values printed by lines 208-210

scorerVars == <<engine, scan_pc, scan_ret>>

selectorVars == <<image_file, otsu_mean, sel_pc, original_image, next_pipeline,
                  pipeline_name, best_text, best_confidence, best_pipeline_name,
                  best_processed_image, processed_log, scan_log, ocr_fault_log,
                  output_path, sel_ret>>

textVars == <<text_in, text_pc, text_ret, text_again, date_engine, searched_text>>

mainVars == <<main_pc, main_text, main_cleaned, info_arg, dates_arg, location_arg,
              main_printed>>

vars == <<scorerVars, selectorVars, textVars, mainVars>>

notScorer == <<selectorVars, textVars, mainVars>>
notSelector == <<scorerVars, textVars, mainVars>>
notText == <<scorerVars, selectorVars, mainVars>>
notMain == <<scorerVars, selectorVars, textVars>>

None == "None"

\* an image is a record of the operations applied to it; this stands for Python's
\* None where an image is expected
NoImage == [none |-> TRUE]

\* an exception leaving the call
Raised == [raised |-> TRUE]

(***************************************************************************)
(* Python str helpers.                                                     *)
(***************************************************************************)
Whitespace == {" ", "\t", "\n"}

IsSpace(c) == c \in Whitespace

\* the index of the first character that is not whitespace, Len(s) + 1 if none
FirstNonSpace(s) ==
    IF \E i \in 1..Len(s) : ~IsSpace(s[i])
    THEN CHOOSE i \in 1..Len(s) : ~IsSpace(s[i]) /\ \A j \in 1..(i - 1) : IsSpace(s[j])
    ELSE Len(s) + 1

LastNonSpace(s) ==
    IF \E i \in 1..Len(s) : ~IsSpace(s[i])
    THEN CHOOSE i \in 1..Len(s) : ~IsSpace(s[i]) /\ \A j \in (i + 1)..Len(s) : IsSpace(s[j])
    ELSE 0

\* str.strip()
Strip(s) == SubSeq(s, FirstNonSpace(s), LastNonSpace(s))

\* sep.join(words)
RECURSIVE Join(_, _)
Join(sep, words) ==
    IF words = <<>> THEN <<>>
    ELSE IF Len(words) = 1 THEN words[1]
    ELSE words[1] \o sep \o Join(sep, Tail(words))

\* text[a:b] with 0 <= a, b <= len(text), Python's half-open 0-based slice
Slice(s, a, b) == SubSeq(s, a + 1, b)

Max(a, b) == IF a >= b THEN a ELSE b
Min(a, b) == IF a <= b THEN a ELSE b

\* all sequences over S of length at most n
SeqsUpTo(S, n) == UNION {[1..k -> S] : k \in 0..n}

(***************************************************************************)
(* Confidence values.  Python divides two numbers into a float; the model  *)
(* keeps the exact quotient as a reduced fraction <<num, den>>, den >= 1.  *)
(***************************************************************************)
RECURSIVE Gcd(_, _)
Gcd(a, b) == IF b = 0 THEN a ELSE Gcd(b, a % b)

Ratio(n, d) == LET g == Gcd(n, d) IN <<n \div g, d \div g>>

Zero == <<0, 1>>

\* a > b on quotients
Greater(a, b) == a[1] * b[2] > b[1] * a[2]

\* a >= b: the comparison a tie would win with
GreaterOrEqual(a, b) == a[1] * b[2] >= b[1] * a[2]

(***************************************************************************)
(* scan_text_with_confidence                                               *)
(***************************************************************************)
\* sum(len(word) for word, _ in valid_detections), lines 57 and 61
RECURSIVE TotalChars(_)
TotalChars(detections) ==
    IF detections = <<>> THEN 0
    ELSE Len(detections[1].word) + TotalChars(Tail(detections))

\* sum(len(word) * conf for word, conf in valid_detections), line 63
RECURSIVE TotalCharConf(_)
TotalCharConf(detections) ==
    IF detections = <<>> THEN 0
    ELSE Len(detections[1].word) * detections[1].conf + TotalCharConf(Tail(detections))

RECURSIVE TotalConf(_)
TotalConf(detections) ==
    IF detections = <<>> THEN 0
    ELSE detections[1].conf + TotalConf(Tail(detections))

\* the unweighted mean of the confidences: what length-weighting replaces
UnweightedConf(valid_detections, total_chars) ==
    Ratio(TotalConf(valid_detections), Len(valid_detections))

\* line 63
WeightedConf(valid_detections, total_chars) ==
    Ratio(TotalCharConf(valid_detections), total_chars)

\* lines 49-52
ValidDetections(data) ==
    SelectSeq(data, LAMBDA d : Strip(d.word) # <<>> /\ d.conf > 0)

\* the body of the try block, lines 42-66, once image_to_data has returned data
ScanData(data) ==
    LET valid_detections == ValidDetections(data)
        total_chars == TotalChars(valid_detections)
    IN  IF valid_detections = <<>> THEN [text |-> <<>>, conf |-> Zero]
        ELSE IF total_chars = 0 THEN [text |-> <<>>, conf |-> Zero]
        ELSE [text |-> Join(<<" ">>, [i \in 1..Len(valid_detections) |->
                                          valid_detections[i].word]),
              conf |-> WeightedConf(valid_detections, total_chars)]

\* scan_text_with_confidence without its except clause: the exception leaves it
ScanPropagates(image, eng) ==
    IF image = NoImage \/ eng.throws THEN Raised ELSE ScanData(eng.data)

\* image_to_data raises on an image that is None (the failed pipeline's result)
\* and whenever the engine faults; the except clause returns ("", 0.0)
scan_text_with_confidence(image, eng) ==
    IF image = NoImage \/ eng.throws THEN [text |-> <<>>, conf |-> Zero]
    ELSE ScanData(eng.data)

(***************************************************************************)
(* apply_preprocessing_pipeline.  An image is the list of OpenCV           *)
(* operations applied to the file's pixels, with its mean intensity (the   *)
(* only pixel property the code reads).                                    *)
(***************************************************************************)
Applied(img, op) == [ops |-> Append(img.ops, op), mean |-> img.mean]

\* one turn of the if/elif chain, lines 15-30; there is no else branch, so a step
\* no branch names leaves processed as it is
ApplyStep(processed, step, threshold_mean) ==
    CASE step = "grayscale" -> Applied(processed, "cvtColor")
      [] step = "otsu_threshold" ->
            [ops |-> Append(processed.ops, "threshold"), mean |-> threshold_mean]
      [] step = "invert_if_dark" ->
            IF processed.mean < 127
            THEN [ops |-> Append(processed.ops, "bitwise_not"),
                  mean |-> 255 - processed.mean]
            ELSE processed
      [] step = "scale_2x" -> Applied(processed, "resize_2x")
      [] step = "scale_3x" -> Applied(processed, "resize_3x")
      \* line 28 reads the name scaled, which nothing binds: NameError
      [] step = "gaussian_blur" -> Raised
      [] step = "denoise" -> Applied(processed, "fastNlMeansDenoising")
      [] OTHER -> processed

\* the steps the if/elif chain names
ImplementedSteps ==
    {"grayscale", "otsu_threshold", "invert_if_dark", "scale_2x", "scale_3x",
     "gaussian_blur", "denoise"}

\* the for loop of lines 14-30 from step k on; cv_fault is the position of the
\* step whose OpenCV call raises (0: none does)
RECURSIVE ApplyFrom(_, _, _, _, _)
ApplyFrom(processed, pipeline, k, cv_fault, threshold_mean) ==
    IF k > Len(pipeline) THEN processed
    ELSE IF k = cv_fault /\ pipeline[k] \in ImplementedSteps THEN Raised
    ELSE LET next == ApplyStep(processed, pipeline[k], threshold_mean)
         IN  IF next = Raised THEN Raised
             ELSE ApplyFrom(next, pipeline, k + 1, cv_fault, threshold_mean)

\* lines 12-36: the except clause turns any exception into None
apply_preprocessing_pipeline(image, pipeline, cv_fault, threshold_mean) ==
    LET processed == ApplyFrom(image, pipeline, 1, cv_fault, threshold_mean)
    IN  IF processed = Raised THEN NoImage ELSE processed

\* lines 75-85, in insertion order
preprocessing_pipelines == <<
    [name |-> "basic",
     steps |-> <<"grayscale", "otsu_threshold", "invert_if_dark">>],
    [name |-> "denoised",
     steps |-> <<"grayscale", "otsu_threshold", "invert_if_dark", "denoise">>],
    [name |-> "scaled_2x",
     steps |-> <<"grayscale", "otsu_threshold", "invert_if_dark", "scale_2x">>],
    [name |-> "scaled_3x",
     steps |-> <<"grayscale", "otsu_threshold", "invert_if_dark", "scale_3x">>],
    [name |-> "scaled_smoothed",
     steps |-> <<"grayscale", "otsu_threshold", "invert_if_dark", "scale_2x",
                 "gaussian_blur">>],
    [name |-> "adaptive_thresh",
     steps |-> <<"grayscale", "adaptive_threshold", "scale_2x">>],
    [name |-> "morphology",
     steps |-> <<"grayscale", "otsu_threshold", "invert_if_dark", "morphology_close",
                 "scale_2x">>],
    [name |-> "full_pipeline",
     steps |-> <<"grayscale", "denoise", "otsu_threshold", "invert_if_dark",
                 "morphology_close", "scale_2x", "gaussian_blur">>] >>

\* confidence >= best_confidence: a tie would replace the current best
ReplacesOnTie(confidence, best) == GreaterOrEqual(confidence, best)

\* line 103
Replaces(confidence, best) == Greater(confidence, best)

(***************************************************************************)
(* Characters and the pieces of the regular expressions.  Positions are    *)
(* 1-based indices of the next character to read; Python offsets are one   *)
(* less.  The texts tried are ASCII, where re.IGNORECASE folds A-Z onto    *)
(* a-z and nothing else.                                                   *)
(***************************************************************************)
LowerCase == <<"a", "b", "c", "d", "e", "f", "g", "h", "i", "j", "k", "l", "m",
               "n", "o", "p", "q", "r", "s", "t", "u", "v", "w", "x", "y", "z">>
UpperCase == <<"A", "B", "C", "D", "E", "F", "G", "H", "I", "J", "K", "L", "M",
               "N", "O", "P", "Q", "R", "S", "T", "U", "V", "W", "X", "Y", "Z">>

\* [A-Za-z]
Letters == {LowerCase[i] : i \in 1..Len(LowerCase)}
               \cup {UpperCase[i] : i \in 1..Len(UpperCase)}

\* \d
Digits == {"0", "1", "2", "3", "4", "5", "6", "7", "8", "9"}

UpperToLower ==
    [c \in {UpperCase[i] : i \in 1..Len(UpperCase)} |->
        LowerCase[CHOOSE i \in 1..Len(UpperCase) : UpperCase[i] = c]]

\* re.IGNORECASE compares characters by their lower case
Lower(c) == IF c \in DOMAIN UpperToLower THEN UpperToLower[c] ELSE c

\* a greedy character-class repetition: the position after the longest run of
\* characters of class that starts at p
RECURSIVE SkipClass(_, _, _)
SkipClass(s, p, class) ==
    IF p <= Len(s) /\ s[p] \in class THEN SkipClass(s, p + 1, class) ELSE p

\* the literal lit matches at p, ignoring case
MatchesAt(s, p, lit) ==
    /\ p + Len(lit) - 1 <= Len(s)
    /\ \A k \in 1..Len(lit) : Lower(s[p + k - 1]) = Lower(lit[k])

\* an alternation (?:w1|w2|...) tried in order at p: the position after the first
\* alternative that matches, 0 when none does
RECURSIVE AfterAlternative(_, _, _, _)
AfterAlternative(s, p, words, k) ==
    IF k > Len(words) THEN 0
    ELSE IF MatchesAt(s, p, words[k]) THEN p + Len(words[k])
    ELSE AfterAlternative(s, p, words, k + 1)

\* (?:Hall|Room|Building)
VenueWords == << <<"H", "a", "l", "l">>, <<"R", "o", "o", "m">>,
                 <<"B", "u", "i", "l", "d", "i", "n", "g">> >>

\* \s*(?:Hall|Room|Building)?\s*\d* from p on: every part may match nothing, so
\* the greedy first try succeeds and no backtracking takes place
AfterVenueTail(s, p) ==
    LET p1 == SkipClass(s, p, Whitespace)
        venue == AfterAlternative(s, p1, VenueWords, 1)
        p2 == IF venue = 0 THEN p1 ELSE venue
        p3 == SkipClass(s, p2, Whitespace)
    IN  SkipClass(s, p3, Digits)

(***************************************************************************)
(* clean_text                                                              *)
(***************************************************************************)
\* the complement of [^a-zA-Z0-9\s:/,@.#-]
AllowSet == Letters \cup Digits \cup Whitespace \cup {":", "/", ",", "@", ".", "#", "-"}

\* re.sub(r"[^a-zA-Z0-9\s:/,@.#-]", "", ocr_text), line 134
RemoveUnwanted(s) == SelectSeq(s, LAMBDA c : c \in AllowSet)

\* re.sub(r"\s+", " ", cleaned), line 137
RECURSIVE CollapseFrom(_, _)
CollapseFrom(s, p) ==
    IF p > Len(s) THEN <<>>
    ELSE IF IsSpace(s[p]) THEN <<" ">> \o CollapseFrom(s, SkipClass(s, p, Whitespace))
    ELSE <<s[p]>> \o CollapseFrom(s, p + 1)

CollapseWhitespace(s) == CollapseFrom(s, 1)

\* clean_text with the two substitutions in the other order
CleanTextCollapseFirst(ocr_text) ==
    IF ocr_text = <<>> THEN <<>>
    ELSE Strip(RemoveUnwanted(CollapseWhitespace(ocr_text)))

\* lines 129-139
clean_text(ocr_text) ==
    IF ocr_text = <<>> THEN <<>>
    ELSE Strip(CollapseWhitespace(RemoveUnwanted(ocr_text)))

(***************************************************************************)
(* filter_location                                                         *)
(***************************************************************************)
\* line 187
location_keywords == << <<"a", "t">>, <<"i", "n">>, <<"o", "n">>,
                        <<"l", "o", "c", "a", "t", "i", "o", "n">>,
                        <<"v", "e", "n", "u", "e">>, <<"p", "l", "a", "c", "e">>,
                        <<"h", "a", "l", "l">>, <<"r", "o", "o", "m">>, <<"@">> >>

NoMatch == [found |-> FALSE]

\* the pattern of line 188 tried at p with keyword k and the ones after it:
\* keyword, \s*, then the group [A-Za-z]+ and its tail.  With no letter after
\* the whitespace the alternative fails (giving whitespace back to \s* leaves
\* [A-Za-z]+ at a whitespace character)
RECURSIVE LocationMatchFrom(_, _, _)
LocationMatchFrom(s, p, k) ==
    IF k > Len(location_keywords) THEN NoMatch
    ELSE IF ~MatchesAt(s, p, location_keywords[k]) THEN LocationMatchFrom(s, p, k + 1)
    ELSE LET group == SkipClass(s, p + Len(location_keywords[k]), Whitespace)
             letters == SkipClass(s, group, Letters)
             end == AfterVenueTail(s, letters)
         IN  IF letters = group THEN LocationMatchFrom(s, p, k + 1)
             ELSE [found |-> TRUE, start |-> p, end |-> end,
                   group |-> SubSeq(s, group, end - 1)]

\* the scan after a match resumes inside the match, one character on: matches
\* may overlap
RECURSIVE LocationScanOverlapping(_, _)
LocationScanOverlapping(s, p) ==
    IF p > Len(s) THEN <<>>
    ELSE LET m == LocationMatchFrom(s, p, 1)
         IN  IF m.found THEN <<m>> \o LocationScanOverlapping(s, p + 1)
             ELSE LocationScanOverlapping(s, p + 1)

\* the scan of re.findall / re.finditer: leftmost match, then on from its end
RECURSIVE LocationScan(_, _)
LocationScan(s, p) ==
    IF p > Len(s) THEN <<>>
    ELSE LET m == LocationMatchFrom(s, p, 1)
         IN  IF m.found THEN <<m>> \o LocationScan(s, m.end)
             ELSE LocationScan(s, p + 1)

\* lines 182-197; re.findall returns the group of each match
filter_location(ocr_text) ==
    IF ocr_text = <<>> THEN [none |-> TRUE, items |-> <<>>]
    ELSE LET matches == LocationScan(ocr_text, 1)
             found_locations == [i \in 1..Len(matches) |-> matches[i].group]
             kept == SelectSeq(found_locations, LAMBDA loc : Strip(loc) # <<>>)
         IN  [none |-> FALSE, items |-> [i \in 1..Len(kept) |-> Strip(kept[i])]]

(***************************************************************************)
(* filter_info                                                             *)
(***************************************************************************)
\* line 146
what_keywords == << <<"m", "e", "e", "t", "i", "n", "g">>,
                    <<"a", "p", "p", "o", "i", "n", "t", "m", "e", "n", "t">>,
                    <<"e", "v", "e", "n", "t">>, <<"c", "a", "l", "l">>,
                    <<"d", "i", "s", "c", "u", "s", "s", "i", "o", "n">>,
                    <<"s", "e", "s", "s", "i", "o", "n">>,
                    <<"g", "a", "t", "h", "e", "r", "i", "n", "g">>,
                    <<"c", "o", "n", "f", "e", "r", "e", "n", "c", "e">>,
                    <<"w", "e", "b", "i", "n", "a", "r">>,
                    <<"w", "o", "r", "k", "s", "h", "o", "p">>,
                    <<"g", "b", "m">> >>

context_window_left == 5
context_window_right == 10

\* the pattern with [A-Za-z\s]* in place of [A-Za-z\s]+: a keyword matches with
\* nothing after it
RECURSIVE InfoMatchAllowingEmptyRun(_, _, _)
InfoMatchAllowingEmptyRun(s, p, k) ==
    IF k > Len(what_keywords) THEN NoMatch
    ELSE IF ~MatchesAt(s, p, what_keywords[k])
         THEN InfoMatchAllowingEmptyRun(s, p, k + 1)
         ELSE LET after == p + Len(what_keywords[k])
                  run == SkipClass(s, after, Letters \cup Whitespace)
                  end == AfterVenueTail(s, run)
              IN  [found |-> TRUE, start |-> p, end |-> end,
                   group |-> SubSeq(s, p, end - 1)]

\* the pattern of line 147 tried at p with keyword k and the ones after it:
\* keyword, then \s*[A-Za-z\s]+, which together take the longest run of letters
\* and whitespace and need one character of it, then the tail
RECURSIVE InfoMatchFrom(_, _, _)
InfoMatchFrom(s, p, k) ==
    IF k > Len(what_keywords) THEN NoMatch
    ELSE IF ~MatchesAt(s, p, what_keywords[k]) THEN InfoMatchFrom(s, p, k + 1)
    ELSE LET after == p + Len(what_keywords[k])
             run == SkipClass(s, after, Letters \cup Whitespace)
             end == AfterVenueTail(s, run)
         IN  IF run = after THEN InfoMatchFrom(s, p, k + 1)
             ELSE [found |-> TRUE, start |-> p, end |-> end,
                   group |-> SubSeq(s, p, end - 1)]

\* the first match of re.finditer from p on
RECURSIVE InfoFirstMatch(_, _)
InfoFirstMatch(s, p) ==
    IF p > Len(s) THEN NoMatch
    ELSE LET m == InfoMatchFrom(s, p, 1)
         IN  IF m.found THEN m ELSE InfoFirstMatch(s, p + 1)

\* the context without the .strip() of line 158
ContextUntrimmed(ocr_text, match_start, match_end) ==
    LET context_start == Max(0, match_start - context_window_left)
        context_end == Min(Len(ocr_text), match_end + context_window_right)
    IN  Slice(ocr_text, context_start, context_end)

\* lines 155-158; match_start and match_end are Python offsets
Context(ocr_text, match_start, match_end) ==
    LET context_start == Max(0, match_start - context_window_left)
        context_end == Min(Len(ocr_text), match_end + context_window_right)
    IN  Strip(Slice(ocr_text, context_start, context_end))

\* lines 141-162: None for empty text, [info, context] for the first match, and
\* None again when the loop body never runs (the function falls off its end)
filter_info(ocr_text) ==
    IF ocr_text = <<>> THEN [kind |-> "None"]
    ELSE LET match == InfoFirstMatch(ocr_text, 1)
         IN  IF match.found
             THEN [kind |-> "pair",
                   info |-> Strip(match.group),
                   context |-> Context(ocr_text, match.start - 1, match.end - 1)]
             ELSE [kind |-> "None"]

(***************************************************************************)
(* filter_dates.  dateparser is an input: what search_dates does with the  *)
(* text (raises, returns None, an empty list, or candidates of which the   *)
(* first matters), what dateparser.parse does with the first candidate's   *)
(* substring, and whether the occurrence of an ambiguous date (a weekday,  *)
(* a month and day) within the current period already lies in the past.    *)
(***************************************************************************)
\* the substitution without the \s* of its pattern: the number goes, the
\* whitespace after it stays
RECURSIVE HashNumbersOnlyFrom(_, _)
HashNumbersOnlyFrom(s, p) ==
    IF p > Len(s) THEN <<>>
    ELSE IF s[p] = "#" /\ p < Len(s) /\ s[p + 1] \in Digits
         THEN HashNumbersOnlyFrom(s, SkipClass(s, p + 1, Digits))
         ELSE <<s[p]>> \o HashNumbersOnlyFrom(s, p + 1)

\* re.sub(r'#\d+\s*', '', ocr_text), line 169
RECURSIVE RemoveHashNumbersFrom(_, _)
RemoveHashNumbersFrom(s, p) ==
    IF p > Len(s) THEN <<>>
    ELSE IF s[p] = "#" /\ p < Len(s) /\ s[p + 1] \in Digits
         THEN RemoveHashNumbersFrom(s, SkipClass(s, SkipClass(s, p + 1, Digits),
                                                 Whitespace))
         ELSE <<s[p]>> \o RemoveHashNumbersFrom(s, p + 1)

\* re.sub(r'\s*@\s*', ' ', cleaned), line 170
RECURSIVE SpaceOutAtSignsFrom(_, _)
SpaceOutAtSignsFrom(s, p) ==
    IF p > Len(s) THEN <<>>
    ELSE LET at == SkipClass(s, p, Whitespace)
         IN  IF at <= Len(s) /\ s[at] = "@"
             THEN <<" ">> \o SpaceOutAtSignsFrom(s, SkipClass(s, at + 1, Whitespace))
             ELSE <<s[p]>> \o SpaceOutAtSignsFrom(s, p + 1)

\* lines 169-170
PreFilter(ocr_text) == SpaceOutAtSignsFrom(RemoveHashNumbersFrom(ocr_text, 1), 1)

\* the absolute date the engine gives a matched substring under a
\* PREFER_DATES_FROM setting
Resolve(substring, prefer_dates_from, period_passed) ==
    IF substring = "absolute" THEN "the date written"
    ELSE IF prefer_dates_from = "future" THEN "next occurrence"
    ELSE IF period_passed THEN "occurrence already past"
    ELSE "next occurrence"

\* settings={'PREFER_DATES_FROM': 'future'}, line 175
SearchPreference == "future"

\* line 176 passes no settings: dateparser's default
ParsePreference == "current_period"

EmptyList == "[]"

\* a bare return in the except clause
ExceptReturnsNone == None

\* line 180
ExceptReturn == EmptyList

\* search_dates(cleaned, settings=...), line 175, when it finds candidates: a list
\* of (substring, date) pairs, of which the code reads the first
FoundDates(eng) ==
    << <<eng.first, Resolve(eng.first, SearchPreference, eng.period_passed)>> >>

\* lines 172-180, after the pre-filter; found_dates[0] raises on None and on []
ResolveFirst(eng) ==
    CASE eng.search = "raises" -> ExceptReturn
      [] eng.search = "None" -> ExceptReturn
      [] eng.search = "empty" -> ExceptReturn
      [] eng.search = "found" ->
            LET found_dates == FoundDates(eng)
            IN  CASE eng.parse = "raises" -> ExceptReturn
                  [] eng.parse = "None" -> None
                  [] eng.parse = "date" ->
                        Resolve(found_dates[1][1], ParsePreference, eng.period_passed)

\* lines 165-180
filter_dates(ocr_text, eng) ==
    IF ocr_text = <<>> THEN None ELSE ResolveFirst(eng)

DateEngines ==
    [search : {"raises", "None", "empty"}, first : {"-"}, parse : {"-"},
     period_passed : {FALSE}]
        \cup [search : {"found"}, first : {"absolute", "ambiguous"},
              parse : {"raises", "None", "date"}, period_passed : BOOLEAN]

(***************************************************************************)
(* Each specification below runs one entry point; the state of the others  *)
(* stays as it is before they are called.                                  *)
(***************************************************************************)
ScorerIdle ==
    /\ engine = [throws |-> FALSE, data |-> <<>>]
    /\ scan_pc = "idle"
    /\ scan_ret = None

\* the locals of find_best_preprocessing before line 88
SelectorLocalsUnbound ==
    /\ original_image = NoImage
    /\ next_pipeline = 1
    /\ pipeline_name = ""
    /\ best_text = <<>>
    /\ best_confidence = Zero
    /\ best_pipeline_name = ""
    /\ best_processed_image = NoImage
    /\ processed_log = <<>>
    /\ scan_log = <<>>
    /\ ocr_fault_log = <<>>
    /\ output_path = <<>>
    /\ sel_ret = None

SelectorIdle ==
    /\ image_file = NoImage
    /\ otsu_mean = 0
    /\ sel_pc = "idle"
    /\ SelectorLocalsUnbound

TextIdle ==
    /\ text_in = <<>>
    /\ text_pc = "idle"
    /\ text_ret = None
    /\ text_again = None
    /\ date_engine = None
    /\ searched_text = None

\* the script's names before line 202
MainUnbound ==
    /\ main_text = None
    /\ main_cleaned = None
    /\ info_arg = None
    /\ dates_arg = None
    /\ location_arg = None
    /\ main_printed = <<>>

MainIdle ==
    /\ main_pc = "idle"
    /\ MainUnbound

(***************************************************************************)
(* The recognition results the scorer is tried on.                         *)
(***************************************************************************)
MaxWords == 3

Hi == <<"H", "i">>
Event == <<"E", "v", "e", "n", "t">>
Conference == <<"C", "o", "n", "f", "e", "r", "e", "n", "c", "e">>

ScorerWords == {<<>>, <<" ">>, Hi, Event, Conference}
ScorerConfs == {-1, 0, 50, 80, 90}

Detections == [word : ScorerWords, conf : ScorerConfs]

AnImage == [ops |-> <<>>, mean |-> 200]

ScorerInit ==
    /\ SelectorIdle
    /\ TextIdle
    /\ MainIdle
    /\ engine \in [throws : BOOLEAN, data : SeqsUpTo(Detections, MaxWords)]
    /\ scan_pc = "call"
    /\ scan_ret = None

\* the call returns from the try block
ScanReturns ==
    /\ scan_pc = "call"
    /\ ~engine.throws
    /\ scan_ret' = scan_text_with_confidence(AnImage, engine)
    /\ scan_pc' = "done"
    /\ UNCHANGED <<engine, notScorer>>

\* the call returns from the except clause
ScanRaises ==
    /\ scan_pc = "call"
    /\ engine.throws
    /\ scan_ret' = scan_text_with_confidence(AnImage, engine)
    /\ scan_pc' = "done"
    /\ UNCHANGED <<engine, notScorer>>

ScorerNext == ScanReturns \/ ScanRaises

SpecScorer == ScorerInit /\ [][ScorerNext]_vars

(***************************************************************************)
(* find_best_preprocessing.  The image file and what the engines do with   *)
(* each candidate image are the environment's choice.                      *)
(***************************************************************************)
Means == {60, 200}

\* the file's own mean intensity is never read: every pipeline thresholds before
\* it inverts
ImageFiles == {NoImage, [ops |-> <<>>, mean |-> 200]}

\* recognition results: no word, one scoring 80, one scoring 90; two pipelines
\* tie when the engine reads the same words from both images
OcrOutputs == {<<>>,
               <<[word |-> Event, conf |-> 80]>>,
               <<[word |-> Hi, conf |-> 90]>>}

EngineRaises == [throws |-> TRUE, data |-> <<>>]

EngineBehaviours == {EngineRaises} \cup [throws : {FALSE}, data : OcrOutputs]

\* what the engines do during one pipeline: an OpenCV call of some step raises
\* (the recognition call is then handed None and raises too), or none does and
\* the recognition engine behaves in one of its ways
PipelineEnvironments(pipeline_steps) ==
    [cv_fault : 1..Len(pipeline_steps), eng : {EngineRaises}]
        \cup [cv_fault : {0}, eng : EngineBehaviours]

image_path == <<"c", "a", "p", "t", "u", "r", "e", ".", "p", "n", "g">>

Init ==
    /\ ScorerIdle
    /\ TextIdle
    /\ MainIdle
    /\ image_file \in ImageFiles
    /\ otsu_mean \in Means
    /\ sel_pc = "imread"
    /\ SelectorLocalsUnbound

\* lines 88-90 and 117-119: imread returns None, FileNotFoundError is raised and
\* the except clause returns ("", 0.0, "")
ImreadFails ==
    /\ sel_pc = "imread"
    /\ image_file = NoImage
    /\ sel_ret' = [text |-> <<>>, conf |-> Zero, name |-> ""]
    /\ sel_pc' = "done"
    /\ UNCHANGED <<image_file, otsu_mean, original_image, next_pipeline,
                   pipeline_name, best_text, best_confidence, best_pipeline_name,
                   best_processed_image, processed_log, scan_log, ocr_fault_log,
                   output_path, notSelector>>

\* lines 88-95
ImreadLoads ==
    /\ sel_pc = "imread"
    /\ image_file # NoImage
    /\ original_image' = image_file
    /\ best_text' = <<>>
    /\ best_confidence' = Zero
    /\ best_pipeline_name' = ""
    /\ best_processed_image' = NoImage
    /\ sel_pc' = "loop"
    /\ UNCHANGED <<image_file, otsu_mean, next_pipeline, pipeline_name,
                   processed_log, scan_log, ocr_fault_log, output_path, sel_ret,
                   notSelector>>

\* one iteration of the for loop, lines 97-107.  An exception that leaves the
\* loop body is caught at line 117 and ends the search with ("", 0.0, "")
RunPipeline ==
    /\ sel_pc = "loop"
    /\ next_pipeline <= Len(preprocessing_pipelines)
    /\ LET pipeline_steps == preprocessing_pipelines[next_pipeline].steps
       IN  \E env \in PipelineEnvironments(pipeline_steps) :
             LET processed_image ==
                     apply_preprocessing_pipeline(original_image, pipeline_steps,
                                                  env.cv_fault, otsu_mean)
                 scan == scan_text_with_confidence(processed_image, env.eng)
             IN  /\ pipeline_name' = preprocessing_pipelines[next_pipeline].name
                 /\ IF scan = Raised
                    THEN /\ sel_ret' = [text |-> <<>>, conf |-> Zero, name |-> ""]
                         /\ sel_pc' = "done"
                         /\ UNCHANGED <<best_confidence, best_text, best_pipeline_name,
                                        best_processed_image, processed_log, scan_log,
                                        ocr_fault_log, next_pipeline>>
                    ELSE /\ IF Replaces(scan.conf, best_confidence)
                            THEN /\ best_confidence' = scan.conf
                                 /\ best_text' = scan.text
                                 /\ best_pipeline_name' = pipeline_name'
                                 /\ best_processed_image' = processed_image
                            ELSE UNCHANGED <<best_confidence, best_text,
                                             best_pipeline_name, best_processed_image>>
                         /\ processed_log' = Append(processed_log, processed_image)
                         /\ scan_log' = Append(scan_log, scan)
                         /\ ocr_fault_log' =
                                Append(ocr_fault_log,
                                       processed_image = NoImage \/ env.eng.throws)
                         /\ next_pipeline' = next_pipeline + 1
                         /\ UNCHANGED <<sel_pc, sel_ret>>
    /\ UNCHANGED <<image_file, otsu_mean, original_image, output_path, notSelector>>

\* lines 109-115, after the last pipeline.  The file name is built from the loop
\* variable pipeline_name, not from best_pipeline_name, and ends in the image
\* path's own extension, for which imwrite has a writer; a file imwrite cannot
\* write makes it return False, which the code does not read
SaveAndReturn ==
    /\ sel_pc = "loop"
    /\ next_pipeline > Len(preprocessing_pipelines)
    /\ output_path' =
          IF best_processed_image # NoImage
          THEN <<"best_preprocessed", pipeline_name, image_path>>
          ELSE output_path
    /\ sel_ret' = [text |-> best_text, conf |-> best_confidence,
                   name |-> best_pipeline_name]
    /\ sel_pc' = "done"
    /\ UNCHANGED <<image_file, otsu_mean, original_image, next_pipeline,
                   pipeline_name, best_text, best_confidence, best_pipeline_name,
                   best_processed_image, processed_log, scan_log, ocr_fault_log,
                   notSelector>>

Next == ImreadFails \/ ImreadLoads \/ RunPipeline \/ SaveAndReturn

Spec == Init /\ [][Next]_vars

(***************************************************************************)
(* The texts the text functions are tried on: every concatenation of a few *)
(* tokens, the tokens chosen so that keywords, whitespace, digits and      *)
(* unwanted characters meet in every order.                                *)
(***************************************************************************)
RECURSIVE Flatten(_)
Flatten(tokens) == IF tokens = <<>> THEN <<>> ELSE tokens[1] \o Flatten(Tail(tokens))

TokenTexts(tokens, n) == {Flatten(ts) : ts \in SeqsUpTo(tokens, n)}

(***************************************************************************)
(* clean_text, applied to a text and then to its own result.               *)
(***************************************************************************)
MaxCleanChars == 5

CleanTokens == {<<"a">>, <<"1">>, <<" ">>, <<"\t">>, <<"!">>, <<"@">>}

CleanInit ==
    /\ ScorerIdle
    /\ SelectorIdle
    /\ MainIdle
    /\ text_in \in TokenTexts(CleanTokens, MaxCleanChars)
    /\ text_pc = "call"
    /\ text_ret = None
    /\ text_again = None
    /\ date_engine = None
    /\ searched_text = None

CleanCall ==
    /\ text_pc = "call"
    /\ text_ret' = clean_text(text_in)
    /\ text_pc' = "done"
    /\ UNCHANGED <<text_in, text_again, date_engine, searched_text, notText>>

CleanAgain ==
    /\ text_pc = "done"
    /\ text_again' = clean_text(text_ret)
    /\ text_pc' = "again"
    /\ UNCHANGED <<text_in, text_ret, date_engine, searched_text, notText>>

CleanNext == CleanCall \/ CleanAgain

SpecClean == CleanInit /\ [][CleanNext]_vars

(***************************************************************************)
(* filter_location                                                         *)
(***************************************************************************)
MaxLocationTokens == 4

LocationTokens == {<<"a", "t">>, <<"@">>, <<"I", "n">>, <<" ">>,
                   <<"H", "a", "l", "l">>, <<"g">>, <<"3">>, <<".">>}

\* "Meeting at Grand Hall 3 tomorrow"
MeetingAtGrandHall ==
    <<"M", "e", "e", "t", "i", "n", "g", " ", "a", "t", " ", "G", "r", "a",
      "n", "d", " ", "H", "a", "l", "l", " ", "3", " ", "t", "o", "m", "o",
      "r", "r", "o", "w">>

LocationInit ==
    /\ ScorerIdle
    /\ SelectorIdle
    /\ MainIdle
    /\ text_in \in TokenTexts(LocationTokens, MaxLocationTokens) \cup {MeetingAtGrandHall}
    /\ text_pc = "call"
    /\ text_ret = None
    /\ text_again = None
    /\ date_engine = None
    /\ searched_text = None

LocationCall ==
    /\ text_pc = "call"
    /\ text_ret' = filter_location(text_in)
    /\ text_pc' = "done"
    /\ UNCHANGED <<text_in, text_again, date_engine, searched_text, notText>>

SpecLocation == LocationInit /\ [][LocationCall]_vars

(***************************************************************************)
(* filter_info                                                             *)
(***************************************************************************)
MaxInfoTokens == 5

Dots == <<".", ".", ".", ".", ".">>

InfoTokens == {<<"g", "b", "m">>, <<"C", "a", "l", "l">>, <<" ">>, <<"x">>, <<"3">>,
               Dots}

\* fifty characters with "event xxxx" at offsets 20-30
FiftyCharacters ==
    Dots \o Dots \o Dots \o Dots \o <<"e", "v", "e", "n", "t", " ", "x", "x", "x", "x">>
         \o Dots \o Dots \o Dots \o Dots

InfoInit ==
    /\ ScorerIdle
    /\ SelectorIdle
    /\ MainIdle
    /\ text_in \in TokenTexts(InfoTokens, MaxInfoTokens) \cup {FiftyCharacters}
    /\ text_pc = "call"
    /\ text_ret = None
    /\ text_again = None
    /\ date_engine = None
    /\ searched_text = None

InfoCall ==
    /\ text_pc = "call"
    /\ text_ret' = filter_info(text_in)
    /\ text_pc' = "done"
    /\ UNCHANGED <<text_in, text_again, date_engine, searched_text, notText>>

SpecInfo == InfoInit /\ [][InfoCall]_vars

(***************************************************************************)
(* filter_dates                                                            *)
(***************************************************************************)
MaxDateChars == 5

DateTokens == {<<"#">>, <<"1">>, <<" ">>, <<"@">>, <<"a">>}

\* "Join #2024 event on March 5"
JoinHashtagEvent ==
    <<"J", "o", "i", "n", " ", "#", "2", "0", "2", "4", " ", "e", "v", "e", "n", "t",
      " ", "o", "n", " ", "M", "a", "r", "c", "h", " ", "5">>

DatesInit ==
    /\ ScorerIdle
    /\ SelectorIdle
    /\ MainIdle
    /\ text_in \in TokenTexts(DateTokens, MaxDateChars) \cup {JoinHashtagEvent}
    /\ date_engine \in DateEngines
    /\ text_pc = "call"
    /\ text_ret = None
    /\ text_again = None
    /\ searched_text = None

\* line 167: the engine is not called
DatesCallEmpty ==
    /\ text_pc = "call"
    /\ text_in = <<>>
    /\ text_ret' = filter_dates(text_in, date_engine)
    /\ text_pc' = "done"
    /\ UNCHANGED <<text_in, text_again, date_engine, searched_text, notText>>

\* lines 169-180
DatesCall ==
    /\ text_pc = "call"
    /\ text_in # <<>>
    /\ searched_text' = PreFilter(text_in)
    /\ text_ret' = filter_dates(text_in, date_engine)
    /\ text_pc' = "done"
    /\ UNCHANGED <<text_in, text_again, date_engine, notText>>

DatesNext == DatesCallEmpty \/ DatesCall

SpecDates == DatesInit /\ [][DatesNext]_vars

(***************************************************************************)
(* The script, lines 199-210.                                              *)
(***************************************************************************)
MaxMainTokens == 3

MainTokens == {<<"g", "b", "m">>, <<"a", "t">>, <<" ">>, <<"x">>, <<"!">>, <<"3">>}

MainInit ==
    /\ ScorerIdle
    /\ SelectorIdle
    /\ TextIdle
    /\ main_pc = "preprocess"
    /\ MainUnbound

\* line 202: the text is the winning text of the search, whatever the engine read
MainPreprocess ==
    /\ main_pc = "preprocess"
    /\ main_text' \in TokenTexts(MainTokens, MaxMainTokens)
    /\ main_pc' = "clean_text"
    /\ UNCHANGED <<main_cleaned, info_arg, dates_arg, location_arg, main_printed,
                   notMain>>

\* line 203: the value clean_text returns is bound to no name
MainCleanText ==
    /\ main_pc = "clean_text"
    /\ main_cleaned' = clean_text(main_text)
    /\ main_pc' = "filter_info"
    /\ UNCHANGED <<main_text, info_arg, dates_arg, location_arg, main_printed,
                   notMain>>

\* line 208
MainFilterInfo ==
    /\ main_pc = "filter_info"
    /\ info_arg' = main_text
    /\ main_printed' = Append(main_printed, filter_info(main_text))
    /\ main_pc' = "filter_dates"
    /\ UNCHANGED <<main_text, main_cleaned, dates_arg, location_arg, notMain>>

\* line 209
MainFilterDates ==
    /\ main_pc = "filter_dates"
    /\ dates_arg' = main_text
    /\ \E eng \in DateEngines :
          main_printed' = Append(main_printed, filter_dates(main_text, eng))
    /\ main_pc' = "filter_location"
    /\ UNCHANGED <<main_text, main_cleaned, info_arg, location_arg, notMain>>

\* line 210
MainFilterLocation ==
    /\ main_pc = "filter_location"
    /\ location_arg' = main_text
    /\ main_printed' = Append(main_printed, filter_location(main_text))
    /\ main_pc' = "end"
    /\ UNCHANGED <<main_text, main_cleaned, info_arg, dates_arg, notMain>>

MainNext ==
    MainPreprocess \/ MainCleanText \/ MainFilterInfo \/ MainFilterDates
        \/ MainFilterLocation

SpecMain == MainInit /\ [][MainNext]_vars

(***************************************************************************)
(* C1.  For every recognition result the engine returns, the scorer drops  *)
(* the entries whose trimmed text is empty or whose confidence is <= 0;    *)
(* with nothing kept it returns ("", 0.0); otherwise the text is the kept  *)
(* words joined by single spaces in their order and the score is           *)
(* sum(len(word) * conf) / sum(len(word)) over the kept entries.           *)
(* ("Event", 80) scores 80 and ("Hi", 90), ("Conference", 50) scores       *)
(* 680/12, not 70.                                                         *)
(***************************************************************************)
KeptIndices(data) ==
    {i \in 1..Len(data) :
        /\ \E j \in 1..Len(data[i].word) : data[i].word[j] \notin Whitespace
        /\ ~(data[i].conf <= 0)}

\* the characters of the kept words, each word but the first after one space
RECURSIVE SpacedWords(_, _)
SpacedWords(data, kept) ==
    IF kept = {} THEN <<>>
    ELSE LET last == CHOOSE i \in kept : \A j \in kept : j <= i
             before == SpacedWords(data, kept \ {last})
         IN  IF kept = {last} THEN data[last].word
             ELSE before \o <<" ">> \o data[last].word

RECURSIVE WeightSum(_, _)
WeightSum(data, kept) ==
    IF kept = {} THEN 0
    ELSE LET i == CHOOSE k \in kept : TRUE
         IN  Len(data[i].word) * data[i].conf + WeightSum(data, kept \ {i})

RECURSIVE LengthSum(_, _)
LengthSum(data, kept) ==
    IF kept = {} THEN 0
    ELSE LET i == CHOOSE k \in kept : TRUE
         IN  Len(data[i].word) + LengthSum(data, kept \ {i})

C1_ScorerLengthWeighted ==
    (scan_pc = "done" /\ ~engine.throws) =>
        LET kept == KeptIndices(engine.data)
        IN  /\ kept = {} => scan_ret = [text |-> <<>>, conf |-> <<0, 1>>]
            /\ kept # {} =>
                 /\ scan_ret.text = SpacedWords(engine.data, kept)
                 /\ scan_ret.conf[2] > 0
                 /\ scan_ret.conf[1] * LengthSum(engine.data, kept)
                      = scan_ret.conf[2] * WeightSum(engine.data, kept)
            /\ engine.data = <<[word |-> Event, conf |-> 80]>>
                 => scan_ret.conf = <<80, 1>>
            /\ engine.data = <<[word |-> Hi, conf |-> 90],
                               [word |-> Conference, conf |-> 50]>>
                 => scan_ret.conf = <<170, 3>> /\ scan_ret.conf # <<70, 1>>

\* a result with a dropped entry between two kept words of different lengths
C1_Witness ==
    /\ scan_pc = "done"
    /\ ~engine.throws
    /\ engine.data = <<[word |-> Hi, conf |-> 90],
                       [word |-> <<" ">>, conf |-> 80],
                       [word |-> Conference, conf |-> 50]>>
    /\ scan_ret.conf = <<170, 3>>
(***************************************************************************)
(* C2 as stated.  When two pipelines tie at the best score, whatever that  *)
(* score is, the call returns the text, score and name of the earliest     *)
(* pipeline that reached it.                                               *)
(***************************************************************************)
BestIn(log, i) == \A k \in 1..Len(log) : ~Greater(log[k].conf, log[i].conf)

EarliestBest(log, i) ==
    /\ BestIn(log, i)
    /\ \A k \in 1..(i - 1) : Greater(log[i].conf, log[k].conf)

C2_TieReturnsEarlierAtAnyScore ==
    (sel_pc = "done" /\ image_file # NoImage) =>
        \A i, j \in 1..Len(scan_log) :
            (i < j /\ EarliestBest(scan_log, i) /\ scan_log[j].conf = scan_log[i].conf)
                => sel_ret = [text |-> scan_log[i].text, conf |-> scan_log[i].conf,
                              name |-> preprocessing_pipelines[i].name]

(***************************************************************************)
(* C2 amended.  During and after the loop the current best is the earliest *)
(* pipeline whose score is the greatest so far, provided that score is     *)
(* above 0.0: a tie at a positive best score returns the earlier           *)
(* pipeline's text, score and name.  While the best score is 0.0 nothing   *)
(* has replaced the initial best, and the call returns ("", 0.0, "").      *)
(***************************************************************************)
C2_TieReturnsEarlierAboveZero ==
    (sel_pc \in {"loop", "done"} /\ image_file # NoImage) =>
        /\ \A i \in 1..Len(scan_log) :
              EarliestBest(scan_log, i) =>
                  IF Greater(scan_log[i].conf, <<0, 1>>)
                  THEN /\ best_text = scan_log[i].text
                       /\ best_confidence = scan_log[i].conf
                       /\ best_pipeline_name = preprocessing_pipelines[i].name
                  ELSE /\ best_text = <<>>
                       /\ best_confidence = <<0, 1>>
                       /\ best_pipeline_name = ""
        /\ sel_pc = "done" =>
              sel_ret = [text |-> best_text, conf |-> best_confidence,
                         name |-> best_pipeline_name]

\* basic and scaled_2x tie at 80, nothing scores more, basic is returned
C2_Witness ==
    /\ sel_pc = "done"
    /\ Len(scan_log) = Len(preprocessing_pipelines)
    /\ scan_log[1].conf = <<80, 1>>
    /\ scan_log[3].conf = <<80, 1>>
    /\ BestIn(scan_log, 1)
    /\ sel_ret.name = "basic"

(***************************************************************************)
(* C3.  For an image that loads, whichever pipelines have a transform step *)
(* or the recognition call raise, the search ends with a result, every     *)
(* registered pipeline has been evaluated, each failing pipeline scored    *)
(* 0.0, and the result is the best-scoring one among the pipelines that    *)
(* did not fail; when all failed it is empty text with score 0.0.          *)
(***************************************************************************)
FailedPipelines == {i \in 1..Len(ocr_fault_log) : ocr_fault_log[i]}

C3_FailureIsolation ==
    (sel_pc = "done" /\ image_file # NoImage) =>
        LET ran == 1..Len(scan_log)
            ok == ran \ FailedPipelines
        IN  /\ Len(scan_log) = Len(preprocessing_pipelines)
            /\ \A i \in FailedPipelines :
                  scan_log[i] = [text |-> <<>>, conf |-> <<0, 1>>]
            /\ \A i \in ran : processed_log[i] = NoImage => i \in FailedPipelines
            /\ ok = {} => sel_ret.text = <<>> /\ sel_ret.conf = <<0, 1>>
            /\ ok # {} =>
                  \E i \in ok :
                      /\ \A j \in ok : ~Greater(scan_log[j].conf, scan_log[i].conf)
                      /\ sel_ret.text = scan_log[i].text
                      /\ sel_ret.conf = scan_log[i].conf
                      /\ Greater(sel_ret.conf, <<0, 1>>)
                            => sel_ret.name = preprocessing_pipelines[i].name

\* the recognition call of basic raises, a transform of denoised raises, and
\* scaled_2x, evaluated after both, wins
C3_Witness ==
    /\ sel_pc = "done"
    /\ Len(scan_log) = Len(preprocessing_pipelines)
    /\ ocr_fault_log[1] /\ processed_log[1] # NoImage
    /\ processed_log[2] = NoImage
    /\ sel_ret.name = "scaled_2x"
    /\ Greater(sel_ret.conf, <<0, 1>>)

(***************************************************************************)
(* C4 as stated.  A pipeline holding a step identifier that                *)
(* apply_preprocessing_pipeline has no implementation for fails: the call  *)
(* yields no image, rather than the image the other steps produce.         *)
(***************************************************************************)
HasUnimplementedStep(pipeline) ==
    \E k \in 1..Len(pipeline) : pipeline[k] \notin ImplementedSteps

C4_UnknownStepFails ==
    \A i \in 1..Len(processed_log) :
        HasUnimplementedStep(preprocessing_pipelines[i].steps)
            => processed_log[i] = NoImage

(***************************************************************************)
(* C5 as stated.  The text each of the three field extractors is called    *)
(* with is clean_text applied to the winning text of the search.           *)
(***************************************************************************)
C5_ExtractorsGetNormalizedText ==
    /\ main_pc \in {"filter_dates", "filter_location", "end"}
          => info_arg = clean_text(main_text)
    /\ main_pc \in {"filter_location", "end"} => dates_arg = clean_text(main_text)
    /\ main_pc = "end" => location_arg = clean_text(main_text)

(***************************************************************************)
(* C6.  clean_text(clean_text(s)) = clean_text(s) for every s, and         *)
(* clean_text(s) holds only characters of the allow-set, no two whitespace *)
(* characters in a row and no whitespace at either end.                    *)
(***************************************************************************)
C6_CleanTextIdempotent ==
    /\ text_pc \in {"done", "again"} =>
          /\ \A i \in 1..Len(text_ret) :
                \/ text_ret[i] \in Letters \cup Digits
                \/ text_ret[i] \in {" ", "\t", "\n"}
                \/ text_ret[i] \in {":", "/", ",", "@", ".", "#", "-"}
          /\ \A i \in 1..(Len(text_ret) - 1) :
                ~(text_ret[i] \in Whitespace /\ text_ret[i + 1] \in Whitespace)
          /\ text_ret # <<>> =>
                text_ret[1] \notin Whitespace /\ text_ret[Len(text_ret)] \notin Whitespace
    /\ text_pc = "again" => text_again = text_ret

\* an unwanted character between two whitespace characters, cleaned twice
C6_Witness ==
    /\ text_pc = "again"
    /\ text_in = <<"a", " ", "!", "\t", "1">>
    /\ text_ret = <<"a", " ", "1">>
    /\ text_again = text_ret

(***************************************************************************)
(* C7 as stated.  When the engine returns a candidate, filter_dates        *)
(* returns the date of the first candidate as resolved under the           *)
(* prefer-future setting: an ambiguous substring resolves to its next      *)
(* occurrence.                                                             *)
(***************************************************************************)
C7_FirstCandidateFutureBiased ==
    (/\ text_pc = "done"
     /\ text_in # <<>>
     /\ date_engine.search = "found"
     /\ date_engine.parse = "date")
        => /\ text_ret = FoundDates(date_engine)[1][2]
           /\ text_ret = Resolve(date_engine.first, "future", date_engine.period_passed)

(***************************************************************************)
(* C8 as stated.  Whenever the engine finds no candidate, returns nothing  *)
(* or raises, and for empty input, filter_dates returns one and the same   *)
(* "no date found" outcome, the one its except clause gives.               *)
(***************************************************************************)
EngineGivesNoDate ==
    \/ date_engine.search \in {"raises", "None", "empty"}
    \/ date_engine.search = "found" /\ date_engine.parse \in {"raises", "None"}

C8_SingleNoDateOutcome ==
    (text_pc = "done" /\ (text_in = <<>> \/ EngineGivesNoDate)) => text_ret = "[]"

(***************************************************************************)
(* C8 amended.  In none of these cases does filter_dates return a date,    *)
(* and it never raises, but the outcome is not one value: an empty list    *)
(* when search_dates raises, returns None or returns no candidate, or when *)
(* the secondary parse raises; None when the text is empty (the engine is  *)
(* then not called) or when the secondary parse returns None.              *)
(***************************************************************************)
C8_NoDateOutcomes ==
    text_pc = "done" =>
        /\ text_in = <<>> => text_ret = "None" /\ searched_text = "None"
        /\ (text_in # <<>> /\ date_engine.search \in {"raises", "None", "empty"})
              => text_ret = "[]"
        /\ (text_in # <<>> /\ date_engine.search = "found") =>
              /\ date_engine.parse = "raises" => text_ret = "[]"
              /\ date_engine.parse = "None" => text_ret = "None"
        /\ text_ret \notin {"None", "[]"} =>
              /\ text_in # <<>>
              /\ date_engine.search = "found"
              /\ date_engine.parse = "date"

\* a text in which search_dates finds nothing
C8_Witness ==
    /\ text_pc = "done"
    /\ text_in = <<"a", " ", "a">>
    /\ date_engine.search = "None"
    /\ text_ret = "[]"

(***************************************************************************)
(* C9 as stated.  Every occurrence of an anchor keyword that is followed,  *)
(* after optional whitespace, by a run of letters (with its optional       *)
(* Hall/Room/Building and digits) has that run, trimmed, among the         *)
(* candidates filter_location returns.                                     *)
(***************************************************************************)
\* the position after the anchor keyword that occurs at p, 0 when none does
AnchorEnd(s, p) ==
    IF \E k \in 1..Len(location_keywords) : MatchesAt(s, p, location_keywords[k])
    THEN p + Len(location_keywords[CHOOSE k \in 1..Len(location_keywords) :
                                       MatchesAt(s, p, location_keywords[k])])
    ELSE 0

\* where the run after the anchor at p starts: after the optional whitespace
RunStart(s, p) == SkipClass(s, AnchorEnd(s, p), Whitespace)

\* an anchor occurs at p and a letter follows its optional whitespace
AnchorWithRunAt(s, p) ==
    /\ AnchorEnd(s, p) # 0
    /\ RunStart(s, p) <= Len(s)
    /\ s[RunStart(s, p)] \in Letters

\* the position after the run: letters, then optionally Hall/Room/Building, digits
RunEnd(s, p) == AfterVenueTail(s, SkipClass(s, RunStart(s, p), Letters))

\* the run with the whitespace at its ends removed
TrimmedRun(s, p) ==
    LET run == SubSeq(s, RunStart(s, p), RunEnd(s, p) - 1)
        inner == {i \in 1..Len(run) : run[i] \notin Whitespace}
    IN  SubSeq(run, CHOOSE i \in inner : \A j \in inner : i <= j,
                    CHOOSE i \in inner : \A j \in inner : j <= i)

C9_EveryAnchorOccurrenceCaptured ==
    (text_pc = "done" /\ text_in # <<>>) =>
        \A p \in 1..Len(text_in) :
            AnchorWithRunAt(text_in, p) =>
                \E k \in 1..Len(text_ret.items) :
                    text_ret.items[k] = TrimmedRun(text_in, p)

(***************************************************************************)
(* C9 amended.  filter_location returns the trimmed runs of the anchor     *)
(* occurrences found by a left-to-right scan that resumes at the end of    *)
(* each match: the leftmost occurrence, then the leftmost one at or after  *)
(* the end of its run, and so on, in that order, duplicates kept.  An      *)
(* occurrence that starts inside an earlier match (its keyword or its      *)
(* run) yields no candidate.  "Meeting at Grand Hall 3 tomorrow" yields    *)
(* "g" (the "in" of Meeting) and "Grand Hall 3".                           *)
(***************************************************************************)
RECURSIVE CandidatesFrom(_, _)
CandidatesFrom(s, p) ==
    LET ahead == {q \in p..Len(s) : AnchorWithRunAt(s, q)}
    IN  IF ahead = {} THEN <<>>
        ELSE LET q == CHOOSE q \in ahead : \A r \in ahead : q <= r
             IN  <<TrimmedRun(s, q)>> \o CandidatesFrom(s, RunEnd(s, q))

GrandHall3 == <<"G", "r", "a", "n", "d", " ", "H", "a", "l", "l", " ", "3">>

C9_NonOverlappingAnchorsCaptured ==
    (text_pc = "done" /\ text_in # <<>>) =>
        /\ ~text_ret.none
        /\ text_ret.items = CandidatesFrom(text_in, 1)
        /\ text_in = MeetingAtGrandHall => text_ret.items = << <<"g">>, GrandHall3 >>

\* the example of the claim
C9_Witness ==
    /\ text_pc = "done"
    /\ text_in = MeetingAtGrandHall
    /\ \E k \in 1..Len(text_ret.items) : text_ret.items[k] = GrandHall3

(***************************************************************************)
(* C10 as stated.  The context filter_info returns for its first match,    *)
(* of span [start, end) in a text of length n, is exactly                  *)
(* text[max(0, start-5) : min(n, end+10)].                                 *)
(***************************************************************************)
\* text[max(0, start-5) : min(n, end+10)] for Python offsets start, end
Window(text, start, end) ==
    LET lo == IF start - 5 < 0 THEN 0 ELSE start - 5
        hi == IF end + 10 > Len(text) THEN Len(text) ELSE end + 10
    IN  [i \in 1..(hi - lo) |-> text[lo + i]]

FirstMatchWindow(text) ==
    LET match == InfoFirstMatch(text, 1)
    IN  Window(text, match.start - 1, match.end - 1)

C10_ContextIsExactWindow ==
    (text_pc = "done" /\ text_in # <<>> /\ text_ret.kind = "pair")
        => text_ret.context = FirstMatchWindow(text_in)

(***************************************************************************)
(* C10 amended.  The context is text[max(0, start-5) : min(n, end+10)]     *)
(* with the whitespace at its two ends removed; it is that substring       *)
(* itself when neither of its edge characters is whitespace, as for a      *)
(* match at offsets 20-30 in a 50-character string without whitespace at   *)
(* offsets 15 and 39.                                                      *)
(***************************************************************************)
C10_ContextIsTrimmedWindow ==
    (text_pc = "done" /\ text_in # <<>> /\ text_ret.kind = "pair") =>
        LET window == FirstMatchWindow(text_in)
            context == text_ret.context
        IN  /\ \E a \in 0..Len(window) :
                  /\ a + Len(context) <= Len(window)
                  /\ context = SubSeq(window, a + 1, a + Len(context))
                  /\ \A i \in 1..a : window[i] \in Whitespace
                  /\ \A i \in (a + Len(context) + 1)..Len(window) :
                        window[i] \in Whitespace
            /\ context # <<>> =>
                  context[1] \notin Whitespace /\ context[Len(context)] \notin Whitespace
            /\ (window # <<>> /\ window[1] \notin Whitespace
                    /\ window[Len(window)] \notin Whitespace) => context = window
            /\ text_in = FiftyCharacters => context = SubSeq(text_in, 16, 40)

\* the match at offsets 20-30 of the fifty characters
C10_Witness ==
    /\ text_pc = "done"
    /\ text_in = FiftyCharacters
    /\ text_ret.kind = "pair"
    /\ InfoFirstMatch(text_in, 1).start = 21
    /\ InfoFirstMatch(text_in, 1).end = 31
    /\ Len(text_ret.context) = 25

(***************************************************************************)
(* C11 as stated.  For every input text, the text filter_dates hands to    *)
(* search_dates contains no "#" immediately followed by a digit, and no    *)
(* "@": each one, with the whitespace around it, has become one space.     *)
(***************************************************************************)
HashDigitAt(s, i) == i < Len(s) /\ s[i] = "#" /\ s[i + 1] \in Digits

InHashNumber(s, i) ==
    \E p \in 1..i :
        /\ HashDigitAt(s, p)
        /\ \A j \in (p + 1)..i : s[j] \in Digits \cup Whitespace
        /\ \A j \in (p + 1)..i : \A k \in (j + 1)..i :
               s[j] \in Whitespace => s[k] \in Whitespace

\* s without the positions that lie in a hashtag number
WithoutHashNumbers(s) ==
    LET kept == SelectSeq([i \in 1..Len(s) |-> i], LAMBDA i : ~InHashNumber(s, i))
    IN  [k \in 1..Len(kept) |-> s[kept[k]]]

\* the positions of "@" in s, in order
AtSigns(s) == SelectSeq([i \in 1..Len(s) |-> i], LAMBDA i : s[i] = "@")

\* the k-th piece of s split at its "@" signs, without the whitespace at the
\* ends that face an "@"
TrimmedPiece(s, k) ==
    LET ats == AtSigns(s)
        from == IF k = 1 THEN 1 ELSE ats[k - 1] + 1
        to == IF k = Len(ats) + 1 THEN Len(s) ELSE ats[k] - 1
        piece == SubSeq(s, from, to)
        left == IF k = 1 THEN 1 ELSE FirstNonSpace(piece)
        right == IF k = Len(ats) + 1 THEN Len(piece) ELSE LastNonSpace(piece)
    IN  SubSeq(piece, left, right)

\* the pieces joined by single spaces
AtSignsSpaced(s) ==
    Join(<<" ">>, [k \in 1..(Len(AtSigns(s)) + 1) |-> TrimmedPiece(s, k)])

JoinEvent ==
    <<"J", "o", "i", "n", " ", "e", "v", "e", "n", "t",
      " ", "o", "n", " ", "M", "a", "r", "c", "h", " ", "5">>

KeywordAt(s, p) ==
    LET occurring == {k \in 1..Len(what_keywords) :
                         /\ p + Len(what_keywords[k]) - 1 <= Len(s)
                         /\ \A i \in 1..Len(what_keywords[k]) :
                                Lower(s[p + i - 1]) = what_keywords[k][i]}
    IN  IF occurring = {} THEN 0 ELSE CHOOSE k \in occurring : TRUE

KeywordOccurrences(s) == {p \in 1..Len(s) : KeywordAt(s, p) # 0}

\* the least position from p on that holds no character of class
EndOfRun(s, p, class) ==
    CHOOSE q \in p..(Len(s) + 1) :
        /\ q = Len(s) + 1 \/ s[q] \notin class
        /\ \A r \in p..(q - 1) : s[r] \in class

\* the keyword at p, the letters and whitespace after it, then digits
TitleAt(s, p) ==
    LET after == p + Len(what_keywords[KeywordAt(s, p)])
        run == EndOfRun(s, after, Letters \cup Whitespace)
    IN  SubSeq(s, p, EndOfRun(s, run, Digits) - 1)

Leftmost(positions) == CHOOSE p \in positions : \A q \in positions : p <= q

C12_AnyKeywordYieldsPair ==
    text_pc = "done" =>
        LET occurrences == KeywordOccurrences(text_in)
        IN  /\ occurrences # {} =>
                  /\ text_ret.kind = "pair"
                  /\ text_ret.info = Strip(TitleAt(text_in, Leftmost(occurrences)))
            /\ occurrences = {} => text_ret.kind = "None"

(***************************************************************************)
(* C12 amended.  filter_info returns one (title, context) pair exactly     *)
(* when some keyword occurrence is immediately followed by a letter or a   *)
(* whitespace character; the pair is taken from the leftmost such          *)
(* occurrence, and its title is that keyword, the run of letters and       *)
(* whitespace after it and the digits that end it, with the whitespace at  *)
(* its two ends removed.  A keyword at the end of the text or before any   *)
(* other character ("gbm", "gbm3") is passed over: the text "gbm3Call x"   *)
(* gives the title "Call x", and a text whose keywords are all of that     *)
(* kind gives None, as does a text with no keyword.  It never raises.      *)
(***************************************************************************)
\* the keyword occurrences with a letter or a whitespace character after them
FollowedOccurrences(s) ==
    {p \in 1..Len(s) :
        LET k == KeywordAt(s, p)
            after == p + Len(what_keywords[k])
        IN  k # 0 /\ after <= Len(s) /\ s[after] \in Letters \cup Whitespace}

C12_FirstFollowedKeywordYieldsPair ==
    text_pc = "done" =>
        LET followed == FollowedOccurrences(text_in)
        IN  /\ text_ret.kind \in {"pair", "None"}
            /\ followed # {} =>
                  /\ text_ret.kind = "pair"
                  /\ text_ret.info = Strip(TitleAt(text_in, Leftmost(followed)))
            /\ followed = {} => text_ret.kind = "None"

\* the first keyword is followed by a digit, the second by a space
C12_Witness ==
    /\ text_pc = "done"
    /\ text_in = <<"g", "b", "m", "3", "C", "a", "l", "l", " ", "x">>
    /\ Leftmost(KeywordOccurrences(text_in)) = 1
    /\ Leftmost(FollowedOccurrences(text_in)) = 5
    /\ text_ret.kind = "pair"
    /\ text_ret.info = <<"C", "a", "l", "l", " ", "x">>
====
